---- MODULE Spec2Model ----
(***************************************************************************)
(* Model of scb_dl: the dimension partitioner (mcpp.py), the throttle and  *)
(* retry decorators (utils.py), the fetch orchestrator get_data with its   *)
(* consumer _main, and the column naming and value parsing of _get_data    *)
(* (download_data.py).                                                     *)
(***************************************************************************)
EXTENDS Integers, Sequences, FiniteSets, TLC

VARIABLES
    \* ---- partitioner call (mcpp.py) ----
    p_values,       \* argument `values`: tuple of cardinalities
    p_bound,        \* argument `bound`
    p_pc,           \* "call" | "returned" | "raised"
    p_out,          \* returned tuple of 0-based indices
    \* ---- throttle / retry decorators (utils.py) ----
    now,                    \* the value time.time() returns
    interval_seconds,       \* throttle argument
    max_calls_in_interval,  \* throttle argument
    min_time_between_calls, \* throttle argument
    call_times,             \* the deque shared by all callers of one gate
    recorded,               \* history: every timestamp ever appended
    net_starts,             \* history: the time at which each execution of the wrapped call began
    throttled,              \* TRUE: f is throttle's wrapper; FALSE: f is the bare op
    wait_time,              \* retry argument
    max_tries,              \* retry argument
    timeout,                \* retry argument: [inf |-> BOOLEAN, s |-> Nat]
    pc,                     \* position of each caller of the retry wrapper
    start,                  \* retry wrapper local
    tries,                  \* retry wrapper local
    sleep_until,            \* wake-up time of asyncio.sleep(wait_time)
    attempts,               \* history: number of calls of f made by the wrapper
    deadline_seen,          \* history: the last deadline check read a time >= start + timeout
    res_status,             \* res.status of the response whose body `get` returned (0: none)
    \* ---- get_data / syncify / _main (download_data.py) ----
    info,                   \* info["variables"]: tuple of [code, n] (n = len(values))
    max_download_time,      \* [inf |-> BOOLEAN, s |-> Nat]
    g_pc,                   \* position of the async generator get_data
    dimensions_to_iterate_over,
    it_pos,                 \* elements consumed from map(get_chunk, values_in_each_chunk)
    in_flight,              \* tasks of the current batch that have not completed
    new,                    \* the accumulator: [none, schema, parts]
    has_yielded_schema,
    to_emit,                \* what is left of `for b in new.to_batches()`
    emitted,                \* history: the items the consumer has received
    requests,               \* history: the queries passed to get, in start order
    merged,                 \* history: indices of the chunks merged so far
    raised_by,              \* history: index of the chunk whose fetch raised, or 0
    m_pc,                   \* position of _main for this table
    artifact,               \* tempfile.mkdtemp() was called
    upload_started,         \* subprocess.Popen(rclone copy ...) was called
    request_batch,          \* history: for each request, the number of its batch of tasks
    received,               \* history: chunk index -> schema of the table its fetch returned
    \* ---- column naming of _get_data (download_data.py) ----
    n_columns,      \* data["columns"]: tuple of [text, type]
    n_names,        \* the names passed to pa.table
    n_pc,           \* "call" | "done"
    \* ---- parse_value call (download_data.py) ----
    v_type,         \* column["type"]
    v_value,        \* argument `value`: tuple of characters
    v_lookup,       \* lookup[column["code"]]: "absent" (no key `value`) or the label kind
    v_out,          \* what the call returned or raised
    v_pc            \* "call" | "done"

planVars == <<p_values, p_bound, p_pc, p_out>>
throttleVars == <<interval_seconds, max_calls_in_interval,
                  min_time_between_calls, call_times, recorded, net_starts,
                  throttled>>
retryVars == <<wait_time, max_tries, timeout, pc, start, tries, sleep_until,
               attempts, deadline_seen, res_status>>
getVars == <<now, throttleVars, retryVars>>

fetchVars == <<info, max_download_time, g_pc, dimensions_to_iterate_over,
               it_pos, in_flight, new, has_yielded_schema, to_emit, emitted,
               requests, merged, raised_by, m_pc, artifact, upload_started,
               request_batch, received>>

namesVars == <<n_columns, n_names, n_pc>>
valueVars == <<v_type, v_value, v_lookup, v_out, v_pc>>
parseVars == <<namesVars, valueVars>>

vars == <<planVars, getVars, fetchVars, parseVars>>

-----------------------------------------------------------------------------
(* Bounds of the partitioner inputs *)
MaxDims == 3
MaxCard == 4
MaxPlanBound == 6

\* The argument tuples of the module-level assertions of mcpp.py, kept among
\* the inputs so that the documented cases are part of every run.
AssertedInputs ==
    { <<(<<1>>), 3>>, <<(<<1, 2>>), 3>>, <<(<<1, 2, 3>>), 3>>,
      <<(<<1, 10, 5, 6>>), 60>>, <<(<<2, 9, 5, 7>>), 60>> }

Tuples(S, n) == UNION { [1..k -> S] : k \in 0..n }

-----------------------------------------------------------------------------
(* mcpp.py *)

\* product(inds): inds is a tuple of 0-based indices into values
RECURSIVE product(_, _)
product(values, inds) ==
    IF inds = <<>> THEN 1
    ELSE values[Head(inds) + 1] * product(values, Tail(inds))

\* range(n) as a tuple 0, 1, ..., n-1
range(n) == [i \in 1..n |-> i - 1]

\* itertools.combinations(range(n), r) restricted to indices >= lo,
\* in the order itertools emits them (lexicographic in the indices)
RECURSIVE combinations(_, _, _)
combinations(lo, n, r) ==
    IF r = 0 THEN << <<>> >>
    ELSE IF lo >= n THEN <<>>
    ELSE LET withLo == combinations(lo + 1, n, r - 1)
         IN  [k \in 1..Len(withLo) |-> <<lo>> \o withLo[k]]
             \o combinations(lo + 1, n, r)

\* for r in range(from, n + 1) for c in combinations(range(n), r)
RECURSIVE allCombinations(_, _)
allCombinations(n, from) ==
    IF from > n THEN <<>>
    ELSE combinations(0, n, from) \o allCombinations(n, from + 1)

\* mutant: the filter is off by one in the candidate's product
admissible_off_by_one(values, bound, c) ==
    bound * (product(values, c) + 1) >= product(values, range(Len(values)))

\* the filter of the generator expression: bound * product(c) >= allprod
admissible(values, bound, c) ==
    bound * product(values, c) >= product(values, range(Len(values)))

\* mutant: equal keys are put in front, so the sort is not stable
RECURSIVE insertByKey_unstable(_, _, _)
insertByKey_unstable(values, c, s) ==
    IF s = <<>> THEN <<c>>
    ELSE IF product(values, c) <= product(values, Head(s))
         THEN <<c>> \o s
         ELSE <<Head(s)>> \o insertByKey_unstable(values, c, Tail(s))

\* sorted(..., key=lambda pc: pc[1]): a stable sort by product
RECURSIVE insertByKey(_, _, _)
insertByKey(values, c, s) ==
    IF s = <<>> THEN <<c>>
    ELSE IF product(values, c) < product(values, Head(s))
         THEN <<c>> \o s
         ELSE <<Head(s)>> \o insertByKey(values, c, Tail(s))

RECURSIVE sortedByKey(_, _)
sortedByKey(values, s) ==
    IF s = <<>> THEN <<>>
    ELSE insertByKey(values, s[Len(s)],
                     sortedByKey(values, SubSeq(s, 1, Len(s) - 1)))

\* mutant: with no admissible candidate every dimension is returned
maximize_constrained_partial_product_total(values, bound) ==
    LET allprod == product(values, range(Len(values)))
        s == sortedByKey(values,
               SelectSeq(allCombinations(Len(values), 1),
                         LAMBDA c : admissible(values, bound, c)))
    IN  IF allprod <= bound THEN [raised |-> FALSE, value |-> <<>>]
        ELSE IF s = <<>> THEN [raised |-> FALSE, value |-> range(Len(values))]
        ELSE [raised |-> FALSE, value |-> s[1]]

\* Result of the call: raised = TRUE models the IndexError of s[0] on an
\* empty candidate list.
maximize_constrained_partial_product(values, bound) ==
    LET allprod == product(values, range(Len(values)))
        s == sortedByKey(values,
               SelectSeq(allCombinations(Len(values), 1),
                         LAMBDA c : admissible(values, bound, c)))
    IN  IF allprod <= bound THEN [raised |-> FALSE, value |-> <<>>]
        ELSE IF s = <<>> THEN [raised |-> TRUE, value |-> <<>>]
        ELSE [raised |-> FALSE, value |-> s[1]]

\* indices of range(n) that are not in the tuple inds
notIn(n, inds) ==
    SelectSeq(range(n), LAMBDA i : \A k \in 1..Len(inds) : inds[k] # i)

-----------------------------------------------------------------------------
(* utils.py: throttle and retry *)

\* Bounds of the decorator runs
NumCallers == 2
MaxClock == 3
MaxTries == 2
MaxTimeout == 3

Callers == 1..NumCallers

\* (interval_seconds, max_calls_in_interval, min_time_between_calls); in the
\* first two the spacing is the default interval / max_calls / 2.
ThrottleConfigs == { <<4, 2, 1>>, <<2, 1, 1>>, <<2, 2, 0>> }

\* (wait_time, max_tries) of `get`, scaled down from (10, 10)
GetRetryConfig == <<1, 2>>

\* mutant: the window test is strict, letting a call through at exactly
\* interval_seconds after the oldest one
blocked_strict(t) ==
    \/ /\ Len(call_times) = max_calls_in_interval
       /\ t - call_times[1] < interval_seconds
    \/ /\ call_times # <<>>
       /\ t - call_times[Len(call_times)] <= min_time_between_calls

\* mutant: the spacing test is strict, letting a call through at exactly
\* min_time_between_calls after the latest one
blocked_spacing_strict(t) ==
    \/ /\ Len(call_times) = max_calls_in_interval
       /\ t - call_times[1] <= interval_seconds
    \/ /\ call_times # <<>>
       /\ t - call_times[Len(call_times)] < min_time_between_calls

\* the while condition of throttle's wrapper, with time.time() reading t
blocked(t) ==
    \/ /\ Len(call_times) = max_calls_in_interval
       /\ t - call_times[1] <= interval_seconds
    \/ /\ call_times # <<>>
       /\ t - call_times[Len(call_times)] <= min_time_between_calls

\* deque(maxlen=max_calls_in_interval).append(t)
dequeAppend(q, t) ==
    IF Len(q) = max_calls_in_interval THEN Append(Tail(q), t)
    ELSE Append(q, t)

\* `await f(...)` inside the retry wrapper, up to f's first suspension.
\* Throttled: one evaluation of the while condition; either the caller goes
\* to asyncio.sleep, or it appends time.time() and enters the wrapped call.
\* No await separates the condition from the append; the clock may advance
\* between the two reads of time.time() (d).
Gate(c) ==
    IF throttled /\ blocked(now)
    THEN /\ pc' = [pc EXCEPT ![c] = "throttle_sleep"]
         /\ UNCHANGED <<now, call_times, recorded, net_starts>>
    ELSE /\ pc' = [pc EXCEPT ![c] = "in_call"]
         /\ IF throttled
            THEN \E d \in 0..1 :
                    /\ now + d <= MaxClock
                    /\ now' = now + d
                    /\ call_times' = dequeAppend(call_times, now + d)
                    /\ recorded' = Append(recorded, now + d)
                    /\ net_starts' = Append(net_starts, now + d)
            ELSE /\ net_starts' = Append(net_starts, now)
                 /\ UNCHANGED <<now, call_times, recorded>>

cfgVars == <<interval_seconds, max_calls_in_interval, min_time_between_calls,
             throttled, wait_time, max_tries, timeout>>

\* time.time() advances
Tick ==
    /\ now < MaxClock
    /\ now' = now + 1
    /\ UNCHANGED <<throttleVars, retryVars, planVars, fetchVars, parseVars>>

\* retry wrapper: start = time.time(); tries = 0; first `await f(...)`
Start(c) ==
    /\ pc[c] = "idle"
    /\ start' = [start EXCEPT ![c] = now]
    /\ tries' = [tries EXCEPT ![c] = 0]
    /\ attempts' = [attempts EXCEPT ![c] = 1]
    /\ Gate(c)
    /\ UNCHANGED <<cfgVars, sleep_until, deadline_seen, res_status,
                   planVars, fetchVars, parseVars>>

\* throttle wrapper: asyncio.sleep(wait_time_seconds * random.random())
\* returns and the while condition is evaluated again
ThrottleWake(c) ==
    /\ pc[c] = "throttle_sleep"
    /\ Gate(c)
    /\ UNCHANGED <<cfgVars, start, tries, sleep_until, attempts,
                   deadline_seen, res_status, planVars, fetchVars, parseVars>>

\* the wrapped call raises exception_type (for `get`: session.post raises, or
\* the body does not parse as JSON): await asyncio.sleep(wait_time)
CallFails(c) ==
    /\ pc[c] = "in_call"
    /\ pc' = [pc EXCEPT ![c] = "retry_sleep"]
    /\ sleep_until' = [sleep_until EXCEPT ![c] = now + wait_time]
    /\ UNCHANGED <<now, throttleVars, wait_time, max_tries, timeout, start,
                   tries, attempts, deadline_seen, res_status,
                   planVars, fetchVars, parseVars>>

deadlineReached(c) == ~timeout.inf /\ now >= start[c] + timeout.s

\* the wrapped call returns: `else: return out`
Returns(c, st) ==
    /\ pc[c] = "in_call"
    /\ pc' = [pc EXCEPT ![c] = "returned"]
    /\ res_status' = [res_status EXCEPT ![c] = st]
    /\ UNCHANGED <<now, throttleVars, wait_time, max_tries, timeout, start,
                   tries, sleep_until, attempts, deadline_seen, planVars, fetchVars, parseVars>>

\* mutant: the deadline is also checked after an attempt that succeeded
CallSucceeds_checks_deadline(c) ==
    IF deadlineReached(c)
    THEN /\ pc[c] = "in_call"
         /\ pc' = [pc EXCEPT ![c] = "timedout"]
         /\ UNCHANGED <<now, throttleVars, wait_time, max_tries, timeout, start,
                        tries, sleep_until, attempts, deadline_seen, res_status,
                        planVars, fetchVars, parseVars>>
    ELSE Returns(c, 0)

\* a bare operation returns
CallSucceeds(c) == Returns(c, 0)

\* HTTP statuses a response of the API may carry
Statuses == {200, 429}

\* `get` of _main: session.post returns a response whose body parses as
\* JSON; a status other than 200 is printed to stderr, and the parsed body is
\* returned in either case
GetReturns(c) == \E st \in Statuses : Returns(c, st)

\* mutant: a re-attempt calls the bare operation, not the throttle wrapper
AfterSleep_ungated(c) ==
    IF deadlineReached(c)
    THEN /\ pc' = [pc EXCEPT ![c] = "timedout"]
         /\ UNCHANGED <<now, call_times, recorded, net_starts, tries, attempts>>
    ELSE /\ tries' = [tries EXCEPT ![c] = tries[c] + 1]
         /\ IF tries[c] + 1 >= max_tries
            THEN /\ pc' = [pc EXCEPT ![c] = "exhausted"]
                 /\ UNCHANGED <<now, call_times, recorded, net_starts, attempts>>
            ELSE /\ attempts' = [attempts EXCEPT ![c] = attempts[c] + 1]
                 /\ pc' = [pc EXCEPT ![c] = "in_call"]
                 /\ net_starts' = Append(net_starts, now)
                 /\ UNCHANGED <<now, call_times, recorded>>

\* mutant: the try-count test is tries > max_tries
AfterSleep_one_more(c) ==
    IF deadlineReached(c)
    THEN /\ pc' = [pc EXCEPT ![c] = "timedout"]
         /\ UNCHANGED <<now, call_times, recorded, net_starts, tries, attempts>>
    ELSE /\ tries' = [tries EXCEPT ![c] = tries[c] + 1]
         /\ IF tries[c] + 1 > max_tries
            THEN /\ pc' = [pc EXCEPT ![c] = "exhausted"]
                 /\ UNCHANGED <<now, call_times, recorded, net_starts, attempts>>
            ELSE /\ attempts' = [attempts EXCEPT ![c] = attempts[c] + 1]
                 /\ Gate(c)

\* after the sleep: the deadline check, tries += 1, the try-count check,
\* and the next iteration's `await f(...)`
AfterSleep(c) ==
    IF deadlineReached(c)
    THEN /\ pc' = [pc EXCEPT ![c] = "timedout"]
         /\ UNCHANGED <<now, call_times, recorded, net_starts, tries, attempts>>
    ELSE /\ tries' = [tries EXCEPT ![c] = tries[c] + 1]
         /\ IF tries[c] + 1 >= max_tries
            THEN /\ pc' = [pc EXCEPT ![c] = "exhausted"]
                 /\ UNCHANGED <<now, call_times, recorded, net_starts, attempts>>
            ELSE /\ attempts' = [attempts EXCEPT ![c] = attempts[c] + 1]
                 /\ Gate(c)

RetryWake(c) ==
    /\ pc[c] = "retry_sleep"
    /\ now >= sleep_until[c]
    /\ deadline_seen' = [deadline_seen EXCEPT
                            ![c] = ~timeout.inf /\ now >= start[c] + timeout.s]
    /\ AfterSleep(c)
    /\ UNCHANGED <<cfgVars, start, sleep_until, res_status, planVars, fetchVars, parseVars>>

-----------------------------------------------------------------------------
(* download_data.py: get_data, syncify, _main *)

\* Bounds of the fetch runs. MAX_CELLS (107_762 in the source) and BatchSize
\* (the n of batched(..., n=90)) are scaled down: TLC's integers are 32 bits
\* wide and a batch of 90 concurrent fetches has 2^90 completion states.
MAX_CELLS == 30
BatchSize == 2
MaxKeyDims == 2
MaxChunks == 4

\* Inputs: cardinalities of the key dimensions, of the content dimension,
\* and the --max-optimal-download-time-seconds argument (default inf)
KeyCards == {2, 3, 16}
ContentCounts == {1, 2, (MAX_CELLS \div 2) + 1, MAX_CELLS + 1}
Budgets == { [inf |-> TRUE, s |-> 0] } \cup { [inf |-> FALSE, s |-> t] : t \in 1..2 }

KeyCode(k) == <<"k1", "k2", "k3", "k4">>[k]

\* info["variables"] with the content dimension at position pos
mkInfo(ks, vf, pos) ==
    [i \in 1..(Len(ks) + 1) |->
        IF i = pos THEN [code |-> "ContentsCode", n |-> vf]
        ELSE LET k == IF i < pos THEN i ELSE i - 1
             IN  [code |-> KeyCode(k), n |-> ks[k]]]

\* key_field_lengths: the non-content variables, in order
key_field_lengths(inf) ==
    SelectSeq(inf, LAMBDA var : var.code # "ContentsCode")

\* tuple(key_field_lengths.values())
lengths(inf) ==
    [k \in 1..Len(key_field_lengths(inf)) |-> key_field_lengths(inf)[k].n]

value_fields(inf) ==
    SelectSeq(inf, LAMBDA var : var.code = "ContentsCode")[1].n

table_rows(inf) == product(lengths(inf), range(Len(lengths(inf))))

table_size(inf) == value_fields(inf) * table_rows(inf)

\* mutant: the cap is passed without dividing by the content field count
plan_bound_undivided(inf) == MAX_CELLS

\* the bound argument of the partitioner call
plan_bound(inf) == MAX_CELLS \div value_fields(inf)

\* dimensions_to_iterate_over, as a partitioner result
plan(inf) ==
    IF table_size(inf) > MAX_CELLS
    THEN maximize_constrained_partial_product(lengths(inf), plan_bound(inf))
    ELSE [raised |-> FALSE, value |-> <<>>]

codes_to_iterate_over(inf, dims) ==
    [k \in 1..Len(dims) |-> key_field_lengths(inf)[dims[k] + 1].code]

\* itertools.product over value lists of the given lengths (a value is
\* modelled by its position in var["values"]); the last list varies fastest
RECURSIVE prefixEach(_, _, _)
prefixEach(v, hi, rest) ==
    IF v > hi THEN <<>>
    ELSE [k \in 1..Len(rest) |-> <<v>> \o rest[k]] \o prefixEach(v + 1, hi, rest)

\* mutant: zip instead of the cartesian product
itertools_product_zip(ns) ==
    IF ns = <<>> THEN << <<>> >>
    ELSE LET m == CHOOSE n \in { ns[k] : k \in 1..Len(ns) } :
                      \A k \in 1..Len(ns) : n <= ns[k]
         IN  [v \in 1..m |-> [k \in 1..Len(ns) |-> v]]

RECURSIVE itertools_product(_)
itertools_product(ns) ==
    IF ns = <<>> THEN << <<>> >>
    ELSE prefixEach(1, Head(ns), itertools_product(Tail(ns)))

values_in_each_chunk(inf, dims) ==
    itertools_product([k \in 1..Len(dims) |-> lengths(inf)[dims[k] + 1]])

\* optimal_download_time > max_download_time
over_budget(inf, budget) ==
    ~budget.inf /\ table_size(inf) > budget.s * (MAX_CELLS * 1)

\* mutant: a batcher that hands out n + 1 elements at a time
batched_one_more(seq, pos, n) ==
    SubSeq(seq, pos + 1, IF pos + n + 1 < Len(seq) THEN pos + n + 1 ELSE Len(seq))

\* mutant: a batcher that drops a final batch shorter than n
batched_full_only(seq, pos, n) ==
    IF pos + n <= Len(seq) THEN SubSeq(seq, pos + 1, pos + n) ELSE <<>>

\* tuple(islice(it, n)) with pos elements of seq already consumed
batched(seq, pos, n) ==
    SubSeq(seq, pos + 1, IF pos + n < Len(seq) THEN pos + n ELSE Len(seq))

\* the query _get_data builds for dict(zip(codes_to_iterate_over, values))
query(inf, codes, values) ==
    LET isSet(code) == \E k \in 1..Len(codes) : codes[k] = code
        valueOf(code) == values[CHOOSE k \in 1..Len(codes) : codes[k] = code]
        pinned == SelectSeq(inf, LAMBDA var : isSet(var.code))
        free == SelectSeq(inf, LAMBDA var :
                    var.code # "ContentsCode" /\ ~isSet(var.code))
    IN  [item |-> [k \in 1..Len(pinned) |->
                      [code |-> pinned[k].code, value |-> valueOf(pinned[k].code)]],
         all |-> [k \in 1..Len(free) |-> free[k].code]]

cardinality(inf, code) ==
    SelectSeq(inf, LAMBDA var : var.code = code)[1].n

RECURSIVE wildcard_product(_, _)
wildcard_product(inf, codes) ==
    IF codes = <<>> THEN 1
    ELSE cardinality(inf, Head(codes)) * wildcard_product(inf, Tail(codes))

\* cells a query asks for
cells(inf, q) == value_fields(inf) * wildcard_product(inf, q.all)

\* The response: one row per combination of the values of the wildcard
\* dimensions. What the rows hold is the server's choice: the content cells
\* of a chunk are all "..", integers, or contain a decimal, and the response
\* may carry a further column.
ContentKinds == {"missing", "ints", "decimals"}

\* type pa.table infers for the parsed content column
inferred_type(kind) ==
    CASE kind = "missing" -> "null"
      [] kind = "ints" -> "int64"
      [] kind = "decimals" -> "double"

\* schema of the pa.table _get_data returns: one column per response column
\* (the key columns, then the content column), then a "__code" column for
\* every response column that is not of type "c"
chunk_schema(kind, extra) ==
    << [name |-> "k", type |-> "string"] >>
    \o (IF extra THEN << [name |-> "x", type |-> "string"] >> ELSE <<>>)
    \o << [name |-> "v", type |-> inferred_type(kind)],
          [name |-> "k__code", type |-> "string"] >>
    \o (IF extra THEN << [name |-> "x__code", type |-> "string"] >> ELSE <<>>)

\* type promotion of promote_options="permissive"
promote(a, b) ==
    IF a = b THEN a
    ELSE IF a = "null" THEN b
    ELSE IF b = "null" THEN a
    ELSE "double"

\* unified schema: the fields of s1 in order, then the new fields of s2
unify_schemas(s1, s2) ==
    LET has(s, nm) == \E k \in 1..Len(s) : s[k].name = nm
        typeIn(s, nm) == s[CHOOSE k \in 1..Len(s) : s[k].name = nm].type
    IN  [k \in 1..Len(s1) |->
            [name |-> s1[k].name,
             type |-> IF has(s2, s1[k].name)
                      THEN promote(s1[k].type, typeIn(s2, s1[k].name))
                      ELSE s1[k].type]]
        \o SelectSeq(s2, LAMBDA f : ~has(s1, f.name))

None == [none |-> TRUE, schema |-> <<>>, parts |-> <<>>]

\* pa.concat_tables((new, chunk), promote_options="permissive") if new is
\* not None else chunk
accumulate(acc, chunk) ==
    IF acc.none THEN chunk
    ELSE [none |-> FALSE,
          schema |-> unify_schemas(acc.schema, chunk.schema),
          parts |-> acc.parts \o chunk.parts]

\* new.to_batches(): one record batch per concatenated chunk, each with the
\* table's schema
to_batches(tbl) ==
    [k \in 1..Len(tbl.parts) |->
        [kind |-> "batch", rows |-> tbl.parts[k], schema |-> tbl.schema]]

\* mutant: the loop over the completed tasks is left after the first one
loop_exhausted_early(rest) == TRUE

\* `for chunk in asyncio.as_completed(tasks)` ends when no task is left
loop_exhausted(rest) == rest = {}

Chunks == values_in_each_chunk(info, dimensions_to_iterate_over)

\* next(batched(...)) and asyncio.as_completed(tasks): the tasks of the next
\* batch are created and started, each building its query and calling get
StartBatch(dims) ==
    LET all == values_in_each_chunk(info, dims)
        tasks == batched(all, it_pos, BatchSize)
    IN  /\ it_pos' = it_pos + Len(tasks)
        /\ in_flight' = (it_pos + 1)..(it_pos + Len(tasks))
        /\ new' = None
        /\ requests' = requests \o
              [k \in 1..Len(tasks) |->
                  query(info, codes_to_iterate_over(info, dims), tasks[k])]
        /\ request_batch' = request_batch \o
              [k \in 1..Len(tasks) |->
                  IF request_batch = <<>> THEN 1
                  ELSE request_batch[Len(request_batch)] + 1]

\* _main: schema = next(data). The generator runs from its start: the plan,
\* the time check, then the first batch.
MainNext ==
    /\ m_pc = "next"
    /\ g_pc = "start"
    /\ LET r == plan(info)
       IN  IF r.raised
           THEN /\ g_pc' = "raised"
                /\ m_pc' = "failed"
                /\ UNCHANGED <<dimensions_to_iterate_over, it_pos, in_flight,
                               new, emitted, requests, request_batch>>
           ELSE /\ dimensions_to_iterate_over' = r.value
                /\ IF over_budget(info, max_download_time)
                   THEN /\ g_pc' = "yielded_none"
                        /\ emitted' = Append(emitted,
                              [kind |-> "none", rows |-> 0, schema |-> <<>>])
                        /\ m_pc' = "cancelled"
                        /\ UNCHANGED <<it_pos, in_flight, new, requests,
                                       request_batch>>
                   ELSE /\ g_pc' = "merging"
                        /\ StartBatch(r.value)
                        /\ UNCHANGED <<emitted, m_pc>>
    /\ UNCHANGED <<info, max_download_time, has_yielded_schema, to_emit,
                   merged, raised_by, artifact, upload_started, received,
                   planVars, getVars, parseVars>>

\* The generator's step after a completed fetch has been merged into acc:
\* on the end of the as_completed loop it yields the schema (first batch;
\* _main then calls mkdtemp and write_dataset) or the first record batch.
AfterMerge(acc, rest) ==
    /\ new' = acc
    /\ IF loop_exhausted(rest)
       THEN IF ~has_yielded_schema
            THEN /\ emitted' = Append(emitted,
                       [kind |-> "schema", rows |-> 0, schema |-> acc.schema])
                 /\ to_emit' = to_batches(acc)
                 /\ g_pc' = "yielded_schema"
                 /\ m_pc' = "writing"
                 /\ artifact' = TRUE
            ELSE /\ emitted' = Append(emitted, Head(to_batches(acc)))
                 /\ to_emit' = Tail(to_batches(acc))
                 /\ g_pc' = "yielded_batch"
                 /\ UNCHANGED <<m_pc, artifact>>
       ELSE UNCHANGED <<emitted, to_emit, g_pc, m_pc, artifact>>

\* chunk = await chunk: the fetch of chunk i is the next to complete; its
\* table is merged into new
FetchSucceeds(i, kind, extra) ==
    /\ g_pc = "merging"
    /\ i \in in_flight
    /\ LET chunk == [none |-> FALSE,
                     schema |-> chunk_schema(kind, extra),
                     parts |-> << wildcard_product(info, requests[i].all) >>]
       IN  AfterMerge(accumulate(new, chunk), in_flight \ {i})
    /\ in_flight' = in_flight \ {i}
    /\ merged' = merged \cup {i}
    /\ received' = (i :> chunk_schema(kind, extra)) @@ received
    /\ UNCHANGED <<info, max_download_time, dimensions_to_iterate_over, it_pos,
                   has_yielded_schema, requests, raised_by, upload_started,
                   request_batch, planVars, getVars, parseVars>>

\* mutant: the directory written so far is uploaded when a fetch fails
FetchFails_uploads(i) ==
    /\ g_pc = "merging"
    /\ i \in in_flight
    /\ in_flight' = in_flight \ {i}
    /\ raised_by' = i
    /\ g_pc' = "raised"
    /\ m_pc' = "failed"
    /\ upload_started' = artifact
    /\ UNCHANGED <<info, max_download_time, dimensions_to_iterate_over, it_pos,
                   new, has_yielded_schema, to_emit, emitted, requests, merged,
                   artifact, request_batch, received, planVars, getVars, parseVars>>

\* mutant: the exception of a fetch is swallowed and the chunk skipped
FetchFails_swallowed(i) ==
    /\ g_pc = "merging"
    /\ i \in in_flight
    /\ in_flight' = in_flight \ {i}
    /\ raised_by' = i
    /\ IF in_flight = {i}
       THEN /\ g_pc' = "yielded_batch"
            /\ to_emit' = to_batches(new)
            /\ m_pc' = "writing"
       ELSE UNCHANGED <<g_pc, to_emit, m_pc>>
    /\ UNCHANGED <<info, max_download_time, dimensions_to_iterate_over, it_pos,
                   new, has_yielded_schema, emitted, requests, merged,
                   artifact, upload_started, request_batch, received,
                   planVars, getVars, parseVars>>

\* chunk = await chunk raises (get raised after its retries, or decoding
\* raised): the exception leaves get_data, syncify and next(); _main's
\* except prints "Failed to collect table"
FetchFails(i) ==
    /\ g_pc = "merging"
    /\ i \in in_flight
    /\ in_flight' = in_flight \ {i}
    /\ raised_by' = i
    /\ g_pc' = "raised"
    /\ m_pc' = "failed"
    /\ UNCHANGED <<info, max_download_time, dimensions_to_iterate_over, it_pos,
                   new, has_yielded_schema, to_emit, emitted, requests, merged,
                   artifact, upload_started, request_batch, received,
                   planVars, getVars, parseVars>>

\* write_dataset asks syncify for the next item: the generator resumes after
\* its yield. It yields the next record batch of new; or takes the next batch
\* of tasks; or ends, and _main starts the upload.
Pull ==
    /\ m_pc = "writing"
    /\ g_pc \in {"yielded_schema", "yielded_batch"}
    /\ has_yielded_schema' = TRUE
    /\ IF to_emit # <<>>
       THEN /\ emitted' = Append(emitted, Head(to_emit))
            /\ to_emit' = Tail(to_emit)
            /\ g_pc' = "yielded_batch"
            /\ UNCHANGED <<it_pos, in_flight, new, requests, m_pc,
                           upload_started, request_batch>>
       ELSE IF batched(Chunks, it_pos, BatchSize) # <<>>
       THEN /\ StartBatch(dimensions_to_iterate_over)
            /\ g_pc' = "merging"
            /\ UNCHANGED <<emitted, to_emit, m_pc, upload_started>>
       ELSE /\ g_pc' = "done"
            /\ m_pc' = "uploading"
            /\ upload_started' = TRUE
            /\ UNCHANGED <<emitted, to_emit, it_pos, in_flight, new, requests,
                           request_batch>>
    /\ UNCHANGED <<info, max_download_time, dimensions_to_iterate_over, merged,
                   raised_by, artifact, received, planVars, getVars, parseVars>>

-----------------------------------------------------------------------------
(* download_data.py: parse_name and the column names of _get_data *)

\* Bound of the response column lists
MaxColumns == 3

\* A text is a tuple of one-character strings. The display texts of the
\* response columns: "a", "Å", "a värde" and "b".
Texts ==
    { <<"a">>, <<"Å">>, <<"a", " ", "v", "ä", "r", "d", "e">>, <<"b">> }

ColumnTypes == {"d", "t", "c"}

\* str.lower() on one character
lower(ch) ==
    CASE ch = "Å" -> "å"
      [] ch = "Ä" -> "ä"
      [] ch = "Ö" -> "ö"
      [] ch = "A" -> "a"
      [] ch = "B" -> "b"
      [] OTHER -> ch

\* for c, r in zip('åäö', 'aao'): name.replace(c, r); name.replace(' ', '_')
replaced(ch) ==
    CASE ch = "å" -> "a"
      [] ch = "ä" -> "a"
      [] ch = "ö" -> "o"
      [] ch = " " -> "_"
      [] OTHER -> ch

\* string.digits + string.ascii_letters + '_'
kept ==
    { "0", "1", "2", "3", "4", "5", "6", "7", "8", "9",
      "a", "b", "c", "d", "e", "f", "g", "h", "i", "j", "k", "l", "m",
      "n", "o", "p", "q", "r", "s", "t", "u", "v", "w", "x", "y", "z",
      "A", "B", "C", "D", "E", "F", "G", "H", "I", "J", "K", "L", "M",
      "N", "O", "P", "Q", "R", "S", "T", "U", "V", "W", "X", "Y", "Z",
      "_" }

parse_name(text) ==
    SelectSeq([k \in 1..Len(text) |-> replaced(lower(text[k]))],
              LAMBDA ch : ch \in kept)

\* f'{name}_varde' and parse_name(...) + '__code'
varde(name) == name \o <<"_", "v", "a", "r", "d", "e">>
code_name(name) == name \o <<"_", "_", "c", "o", "d", "e">>

\* the list `names` of _get_data: the parsed texts, a later duplicate of an
\* earlier parsed text suffixed once, then the "__code" names of the
\* columns that are not of type "c"
column_names(columns) ==
    LET parsed == [i \in 1..Len(columns) |-> parse_name(columns[i].text)]
        suffixed ==
            [i \in 1..Len(columns) |->
                IF \E j \in 1..(i - 1) : parsed[j] = parsed[i]
                THEN varde(parsed[i]) ELSE parsed[i]]
        coded == SelectSeq(columns, LAMBDA column : column.type # "c")
    IN  suffixed \o [i \in 1..Len(coded) |-> code_name(parse_name(coded[i].text))]

\* _get_data builds the names of one response's table
NameColumns ==
    /\ n_pc = "call"
    /\ n_names' = column_names(n_columns)
    /\ n_pc' = "done"
    /\ UNCHANGED <<n_columns, valueVars, planVars, getVars, fetchVars>>

-----------------------------------------------------------------------------
(* download_data.py: parse_value *)

\* Bound of the raw values
MaxValueLen == 2

\* A raw value is a tuple of one-character strings over these characters
ValueChars == {"1", "2", "M", "."}

\* lookup[column['code']] as far as the call reads it: no entry for the
\* value, a label equal to the value, or a label that differs from it
Lookups == {"absent", "same", "label"}

\* results of a call: an int, a float (kept as its text), a str, None, or an
\* exception leaving the call
NoOut == [kind |-> "unset", n |-> 0, s |-> <<>>]
outcome(kind, n, s) == [kind |-> kind, n |-> n, s |-> s]

digit(ch) ==
    CASE ch = "0" -> 0 [] ch = "1" -> 1 [] ch = "2" -> 2 [] ch = "3" -> 3
      [] ch = "4" -> 4 [] ch = "5" -> 5 [] ch = "6" -> 6 [] ch = "7" -> 7
      [] ch = "8" -> 8 [] ch = "9" -> 9

digits == {"0", "1", "2", "3", "4", "5", "6", "7", "8", "9"}

\* int(value) does not raise ValueError
int_shape(value) ==
    value # <<>> /\ \A k \in 1..Len(value) : value[k] \in digits

\* int(value) for a value of integer shape
RECURSIVE to_int(_)
to_int(value) ==
    IF value = <<>> THEN 0
    ELSE 10 * to_int(SubSeq(value, 1, Len(value) - 1)) + digit(value[Len(value)])

\* ast.literal_eval(value): an int literal, a float literal (digits around
\* one point, at least one digit), anything else raises
literal_eval(value) ==
    LET points == { k \in 1..Len(value) : value[k] = "." }
        others == { k \in 1..Len(value) : value[k] \notin (digits \cup {"."}) }
    IN  IF int_shape(value) THEN outcome("int", to_int(value), <<>>)
        ELSE IF others = {} /\ Cardinality(points) = 1 /\ Len(value) >= 2
        THEN outcome("float", 0, value)
        ELSE outcome("raise", 0, <<"V", "a", "l", "u", "e", "E", "r", "r", "o", "r">>)

\* lookup[column['code']][value]
looked_up(lookup, value) ==
    CASE lookup = "absent" ->
            outcome("raise", 0, <<"K", "e", "y", "E", "r", "r", "o", "r">>)
      [] lookup = "same" -> outcome("str", 0, value)
      [] lookup = "label" -> outcome("str", 0, <<"L">> \o value)

parse_value(lookup, type, value) ==
    IF value = <<".", ".">> THEN outcome("none", 0, <<>>)
    ELSE IF type = "c" THEN literal_eval(value)
    ELSE IF type = "t" /\ int_shape(value) THEN outcome("int", to_int(value), <<>>)
    ELSE looked_up(lookup, value)

\* one call of parse_value
ParseValue ==
    /\ v_pc = "call"
    /\ v_out' = parse_value(v_lookup, v_type, v_value)
    /\ v_pc' = "done"
    /\ UNCHANGED <<v_type, v_value, v_lookup, namesVars, planVars, getVars,
                   fetchVars>>

-----------------------------------------------------------------------------
(* Initial states and specifications *)

GetUnused ==
    /\ now = 0
    /\ interval_seconds = 0 /\ max_calls_in_interval = 0
    /\ min_time_between_calls = 0
    /\ call_times = <<>> /\ recorded = <<>> /\ net_starts = <<>> /\ throttled = FALSE
    /\ wait_time = 0 /\ max_tries = 0 /\ timeout = [inf |-> TRUE, s |-> 0]
    /\ pc = [c \in Callers |-> "unused"]
    /\ start = [c \in Callers |-> 0]
    /\ tries = [c \in Callers |-> 0]
    /\ sleep_until = [c \in Callers |-> 0]
    /\ attempts = [c \in Callers |-> 0]
    /\ deadline_seen = [c \in Callers |-> FALSE]
    /\ res_status = [c \in Callers |-> 0]

PlanUnused ==
    /\ p_values = <<>> /\ p_bound = 0 /\ p_pc = "unused" /\ p_out = <<>>

ParseUnused ==
    /\ n_columns = <<>> /\ n_names = <<>> /\ n_pc = "unused"
    /\ v_type = "" /\ v_value = <<>> /\ v_lookup = "" /\ v_out = NoOut
    /\ v_pc = "unused"

FetchUnused ==
    /\ info = <<>> /\ max_download_time = [inf |-> TRUE, s |-> 0]
    /\ g_pc = "unused" /\ m_pc = "unused"
    /\ dimensions_to_iterate_over = <<>> /\ it_pos = 0 /\ in_flight = {}
    /\ new = None /\ has_yielded_schema = FALSE /\ to_emit = <<>>
    /\ emitted = <<>> /\ requests = <<>> /\ merged = {} /\ raised_by = 0
    /\ artifact = FALSE /\ upload_started = FALSE
    /\ request_batch = <<>> /\ received = <<>>

\* number of sub-requests of a table
num_chunks(inf) ==
    IF plan(inf).raised THEN 0 ELSE product(lengths(inf), plan(inf).value)

Tables ==
    { mkInfo(ks, vf, pos) : <<ks, vf, pos>> \in
        { t \in (Tuples(KeyCards, MaxKeyDims) \X ContentCounts \X (1..(MaxKeyDims + 1))) :
            t[3] <= Len(t[1]) + 1 } }

\* one table of list_tables handled by the loop body of _main
InitFetch ==
    /\ PlanUnused
    /\ ParseUnused
    /\ GetUnused
    /\ info \in { inf \in Tables : num_chunks(inf) <= MaxChunks }
    /\ max_download_time \in Budgets
    /\ g_pc = "start" /\ m_pc = "next"
    /\ dimensions_to_iterate_over = <<>> /\ it_pos = 0 /\ in_flight = {}
    /\ new = None /\ has_yielded_schema = FALSE /\ to_emit = <<>>
    /\ emitted = <<>> /\ requests = <<>> /\ merged = {} /\ raised_by = 0
    /\ artifact = FALSE /\ upload_started = FALSE
    /\ request_batch = <<>> /\ received = <<>>

NextFetch ==
    \/ MainNext
    \/ \E i \in 1..MaxChunks, kind \in ContentKinds, extra \in BOOLEAN :
          FetchSucceeds(i, kind, extra)
    \/ \E i \in 1..MaxChunks : FetchFails(i)
    \/ Pull

SpecFetch == InitFetch /\ [][NextFetch]_vars

\* `get` of _main: retry(wait_time=10, max_tries=10, timeout=inf) around
\* throttle(interval_seconds=10, max_calls_in_interval=9), called by every
\* concurrent chunk fetch; times and counts scaled down.
InitGet ==
    /\ PlanUnused
    /\ ParseUnused
    /\ FetchUnused
    /\ now = 0
    /\ \E cfg \in ThrottleConfigs :
          /\ interval_seconds = cfg[1]
          /\ max_calls_in_interval = cfg[2]
          /\ min_time_between_calls = cfg[3]
    /\ call_times = <<>> /\ recorded = <<>> /\ net_starts = <<>> /\ throttled = TRUE
    /\ wait_time = GetRetryConfig[1] /\ max_tries = GetRetryConfig[2]
    /\ timeout = [inf |-> TRUE, s |-> 0]
    /\ pc = [c \in Callers |-> "idle"]
    /\ start = [c \in Callers |-> 0]
    /\ tries = [c \in Callers |-> 0]
    /\ sleep_until = [c \in Callers |-> 0]
    /\ attempts = [c \in Callers |-> 0]
    /\ deadline_seen = [c \in Callers |-> FALSE]
    /\ res_status = [c \in Callers |-> 0]

NextGet ==
    \/ Tick
    \/ \E c \in Callers : Start(c)
    \/ \E c \in Callers : ThrottleWake(c)
    \/ \E c \in Callers : CallFails(c)
    \/ \E c \in Callers : GetReturns(c)
    \/ \E c \in Callers : RetryWake(c)

SpecGet == InitGet /\ [][NextGet]_vars

\* one retry wrapper around a bare operation (as retry()(client.upload)),
\* for every combination of its arguments
InitRetry ==
    /\ PlanUnused
    /\ ParseUnused
    /\ FetchUnused
    /\ now = 0
    /\ interval_seconds = 0 /\ max_calls_in_interval = 0
    /\ min_time_between_calls = 0
    /\ call_times = <<>> /\ recorded = <<>> /\ net_starts = <<>> /\ throttled = FALSE
    /\ wait_time \in 0..1
    /\ max_tries \in 1..(MaxTries + 1)
    /\ timeout \in ({[inf |-> TRUE, s |-> 0]}
                     \cup {[inf |-> FALSE, s |-> t] : t \in 0..MaxTimeout})
    /\ pc = [c \in Callers |-> IF c = 1 THEN "idle" ELSE "unused"]
    /\ start = [c \in Callers |-> 0]
    /\ tries = [c \in Callers |-> 0]
    /\ sleep_until = [c \in Callers |-> 0]
    /\ attempts = [c \in Callers |-> 0]
    /\ deadline_seen = [c \in Callers |-> FALSE]
    /\ res_status = [c \in Callers |-> 0]

NextRetry ==
    \/ Tick
    \/ \E c \in Callers : Start(c)
    \/ \E c \in Callers : CallFails(c)
    \/ \E c \in Callers : CallSucceeds(c)
    \/ \E c \in Callers : RetryWake(c)

SpecRetry == InitRetry /\ [][NextRetry]_vars

-----------------------------------------------------------------------------
(* Specification of a single partitioner call *)

InitPlan ==
    /\ \E in \in ({ <<v, b>> : v \in (Tuples(1..MaxCard, MaxDims) \ {<<>>}),
                               b \in 0..MaxPlanBound } \cup AssertedInputs) :
          /\ p_values = in[1]
          /\ p_bound = in[2]
    /\ p_pc = "call"
    /\ p_out = <<>>
    /\ GetUnused
    /\ FetchUnused
    /\ ParseUnused

PlanCall ==
    /\ p_pc = "call"
    /\ LET r == maximize_constrained_partial_product(p_values, p_bound)
       IN  /\ p_pc' = IF r.raised THEN "raised" ELSE "returned"
           /\ p_out' = r.value
    /\ UNCHANGED <<p_values, p_bound>>

    /\ UNCHANGED <<getVars, fetchVars, parseVars>>

NextPlan == PlanCall

SpecPlan == InitPlan /\ [][NextPlan]_vars

-----------------------------------------------------------------------------
(* Specification of the naming of one response's columns *)

InitNames ==
    /\ n_columns \in Tuples([text : Texts, type : ColumnTypes], MaxColumns)
    /\ n_names = <<>>
    /\ n_pc = "call"
    /\ v_type = "" /\ v_value = <<>> /\ v_lookup = "" /\ v_out = NoOut
    /\ v_pc = "unused"
    /\ PlanUnused
    /\ GetUnused
    /\ FetchUnused

NextNames == NameColumns

SpecNames == InitNames /\ [][NextNames]_vars

-----------------------------------------------------------------------------
(* Specification of one parse_value call *)

InitValue ==
    /\ v_type \in ColumnTypes
    /\ v_value \in (Tuples(ValueChars, MaxValueLen) \ {<<>>})
    /\ v_lookup \in Lookups
    /\ v_out = NoOut
    /\ v_pc = "call"
    /\ n_columns = <<>> /\ n_names = <<>> /\ n_pc = "unused"
    /\ PlanUnused
    /\ GetUnused
    /\ FetchUnused

NextValue == ParseValue

SpecValue == InitValue /\ [][NextValue]_vars

-----------------------------------------------------------------------------
(* Properties *)

RECURSIVE rows_of(_)
rows_of(items) ==
    IF items = <<>> THEN 0
    ELSE (IF Head(items).kind = "batch" THEN Head(items).rows ELSE 0)
         + rows_of(Tail(items))

RowsEmitted == rows_of(emitted)

SchemaPositions == { k \in 1..Len(emitted) : emitted[k].kind = "schema" }
BatchPositions == { k \in 1..Len(emitted) : emitted[k].kind = "batch" }

\* rows the chunks of requests 1..n carry
RECURSIVE rows_of_requests(_)
rows_of_requests(n) ==
    IF n = 0 THEN 0
    ELSE wildcard_product(info, requests[n].all) + rows_of_requests(n - 1)

\* C1: any max_calls_in_interval + 1 recorded call timestamps span more
\* than interval_seconds: no window of that length holds more than
\* max_calls_in_interval recorded call starts.
C1_WindowBound ==
    \A i, j \in 1..Len(recorded) :
        j - i >= max_calls_in_interval
            => recorded[j] - recorded[i] > interval_seconds

\* two callers have passed the gate and a full window is as tight as allowed
C1_Witness ==
    /\ \A c \in {1, 2} : attempts[c] >= 1 /\ pc[c] # "throttle_sleep"
    /\ \E i \in 1..Len(recorded) :
          /\ i + max_calls_in_interval <= Len(recorded)
          /\ recorded[i + max_calls_in_interval] - recorded[i]
                = interval_seconds + 1

\* C2: every sub-request get_data issues asks for at most MAX_CELLS cells
\* (content field count times the cardinalities of its wildcard key
\* dimensions); its pinned dimensions are exactly the key dimensions at the
\* indices the partitioner returns for the bound MAX_CELLS div content field
\* count, wherever the content dimension stands among the variables.
C2_RequestsRespectCap ==
    LET keys == SelectSeq(info, LAMBDA var : var.code # "ContentsCode")
        vf == SelectSeq(info, LAMBDA var : var.code = "ContentsCode")[1].n
        cards == [k \in 1..Len(keys) |-> keys[k].n]
        chosen ==
            IF vf * product(cards, range(Len(cards))) > MAX_CELLS
            THEN maximize_constrained_partial_product(cards, MAX_CELLS \div vf).value
            ELSE <<>>
        pinnedCodes == { keys[chosen[k] + 1].code : k \in 1..Len(chosen) }
        freeKeys == { k \in 1..Len(keys) : keys[k].code \notin pinnedCodes }
        freeSeq == SelectSeq(range(Len(keys)), LAMBDA i : (i + 1) \in freeKeys)
    IN  \A r \in 1..Len(requests) :
            /\ { requests[r].item[k].code : k \in 1..Len(requests[r].item) }
                  = pinnedCodes
            /\ { requests[r].all[k] : k \in 1..Len(requests[r].all) }
                  = { keys[k].code : k \in freeKeys }
            /\ vf * product(cards, freeSeq) <= MAX_CELLS

\* a pinned request of a second batch, the content dimension standing first
C2_Witness ==
    /\ Len(requests) > BatchSize
    /\ info[1].code = "ContentsCode"
    /\ requests[Len(requests)].item # <<>>
    /\ requests[Len(requests)].all # <<>>

\* C3: when the stream of a table ends normally (every sub-request has
\* succeeded; the time check passed), the rows of all emitted record batches
\* add up to the product of the key dimensions' cardinalities.
C3_TotalRows ==
    g_pc = "done" => RowsEmitted = table_rows(info)

\* a stream that ended after more than one batch of tasks
C3_Witness ==
    /\ g_pc = "done"
    /\ Len(requests) > BatchSize
    /\ RowsEmitted > Len(requests)

\* C4: in a fetch that passes the time check the schema is emitted at most
\* once, as the first item, only after every fetch of the first batch has
\* been merged; once a record batch has been emitted or the stream has ended
\* it has been emitted exactly once.
C4_SchemaOnce ==
    ~over_budget(info, max_download_time) =>
        /\ Cardinality(SchemaPositions) <= 1
        /\ emitted # <<>> => emitted[1].kind = "schema"
        /\ SchemaPositions # {} =>
              /\ it_pos >= 1
              /\ \A i \in 1..Len(requests) : i <= BatchSize => i \in merged
              /\ Len(requests) >= BatchSize \/ Len(requests) = Len(Chunks)
        /\ (BatchPositions # {} \/ g_pc = "done") => SchemaPositions = {1}

\* the second batch of tasks has been merged and emitted
C4_Witness ==
    /\ Len(requests) > BatchSize
    /\ g_pc = "yielded_batch"
    /\ Len(requests) \in merged
    /\ Cardinality(BatchPositions) > BatchSize

\* C5 (as claimed): every emitted record batch has the schema that was
\* emitted after the first batch of tasks.
C5_BatchesHaveEmittedSchema ==
    \A k \in BatchPositions : emitted[k].schema = emitted[1].schema

\* C6: when the fetch of one assignment raises, the generator raises and
\* _main's next/write_dataset gets the exception; the stream does not end
\* normally, and no task of a later batch is ever started. A stream that
\* ends normally has merged every chunk.
C6_FailureIsFatal ==
    /\ raised_by # 0 =>
          /\ g_pc = "raised"
          /\ m_pc = "failed"
          /\ Len(requests) <= (((raised_by - 1) \div BatchSize) + 1) * BatchSize
          /\ it_pos = Len(requests)
    /\ g_pc = "done" =>
          /\ raised_by = 0
          /\ merged = 1..Len(Chunks)

\* a fetch raised while assignments of a later batch were still to come
C6_Witness ==
    /\ raised_by # 0
    /\ it_pos < Len(Chunks)
    /\ in_flight # {}

\* C7 (as claimed): either the consumer receives the schema and all rows,
\* or the fetch fails and the consumer has received no record batch.
C7_NoPartialTable ==
    /\ g_pc = "done" => SchemaPositions = {1} /\ RowsEmitted = table_rows(info)
    /\ g_pc = "raised" => BatchPositions = {}

\* C7 (amended): either the consumer receives the schema and all rows, or
\* the fetch fails as a whole; then the consumer has received exactly the
\* record batches of the batches of tasks before the failing one (none when
\* the first batch fails), and no upload is started.
C7_FailureKeepsEarlierBatches ==
    /\ g_pc = "done" => SchemaPositions = {1} /\ RowsEmitted = table_rows(info)
    /\ g_pc = "raised" =>
          /\ ~upload_started
          /\ m_pc = "failed"
          /\ IF raised_by = 0 THEN emitted = <<>>
             ELSE RowsEmitted =
                    rows_of_requests(((raised_by - 1) \div BatchSize) * BatchSize)

\* a fetch of the second batch raised after the first batch's rows went out
C7_Witness ==
    /\ g_pc = "raised"
    /\ raised_by > BatchSize
    /\ RowsEmitted > 0

\* C8: a retry wrapper that ends with the retries-exhausted error has made
\* exactly max_tries attempts and no deadline check found the deadline
\* reached; one that ends with the timeout error found the deadline reached
\* at the check after a failed attempt; a check that finds the deadline
\* reached is followed by no attempt, also when the try count is reached at
\* the same check; never more than max_tries attempts are made.
C8_RetryAlwaysFailing ==
    \A c \in Callers :
        /\ attempts[c] <= max_tries
        /\ pc[c] = "exhausted" => attempts[c] = max_tries /\ ~deadline_seen[c]
        /\ pc[c] = "timedout" => deadline_seen[c] /\ attempts[c] >= 1
        /\ deadline_seen[c] => pc[c] = "timedout"

\* retries exhausted under a finite deadline that was never reached
C8_Witness ==
    \E c \in Callers :
        /\ pc[c] = "exhausted"
        /\ max_tries >= 2
        /\ ~timeout.inf
        /\ wait_time >= 1

\* C9 (as claimed): a fetch whose estimated time exceeds the budget ends
\* with the cancelled outcome (a None in place of the schema), with no
\* sub-request issued, nothing else emitted and no artifact created.
C9_OverBudgetCancels ==
    (over_budget(info, max_download_time) /\ g_pc # "start") =>
        /\ g_pc = "yielded_none"
        /\ m_pc = "cancelled"
        /\ requests = <<>>
        /\ SchemaPositions = {} /\ BatchPositions = {}
        /\ ~artifact /\ ~upload_started

\* C10: for a positive bound, the cardinalities at the indices the
\* partitioner does not return multiply to at most the bound.
C10_ComplementWithinBound ==
    (p_pc = "returned" /\ p_bound >= 1) =>
        product(p_values, notIn(Len(p_values), p_out)) <= p_bound

\* a plan of two pinned dimensions
C10_Witness ==
    /\ p_pc = "returned"
    /\ Len(p_out) = 2
    /\ Len(p_values) = 3


\* strictly increasing tuples of indices of range(n): the subsets of indices
IndexSubsets(n) ==
    { c \in Tuples(0..(n - 1), n) :
        \A k \in 1..(Len(c) - 1) : c[k] < c[k + 1] }

\* a before b in the enumeration by increasing size, then lexicographic
EnumeratedBefore(a, b) ==
    \/ Len(a) < Len(b)
    \/ /\ Len(a) = Len(b)
       /\ \E k \in 1..Len(a) :
             /\ a[k] < b[k]
             /\ \A j \in 1..(k - 1) : a[j] = b[j]

\* the complement of c multiplies to at most the bound
ValidPlan(c) ==
    product(p_values, notIn(Len(p_values), c)) <= p_bound

\* C11: the returned set is minimal: every subset of indices whose
\* complement multiplies to at most the bound has a product at least that of
\* the returned set, and those of equal product come later in the
\* enumeration by increasing size and, within a size, lexicographic order.
C11_MinimalFirst ==
    (p_pc = "returned" /\ p_bound >= 1) =>
        \A c \in IndexSubsets(Len(p_values)) :
            ValidPlan(c) =>
                \/ product(p_values, c) > product(p_values, p_out)
                \/ /\ product(p_values, c) = product(p_values, p_out)
                   /\ c = p_out \/ EnumeratedBefore(p_out, c)

\* a returned non-empty plan that ties with another valid subset
C11_Witness ==
    /\ p_pc = "returned"
    /\ p_out # <<>>
    /\ \E c \in IndexSubsets(Len(p_values)) :
          /\ c # p_out
          /\ ValidPlan(c)
          /\ product(p_values, c) = product(p_values, p_out)


\* the call with arguments (v, b), once made, has returned out
PlanIs(v, b, out) ==
    (p_values = v /\ p_bound = b /\ p_pc # "call") =>
        (p_pc = "returned" /\ p_out = out)

\* C12 (as claimed): plan((1,), 3) = {}, plan((1,2), 3) = {},
\* plan((1,2,3), 3) = {0}, plan((1,10,5,6), 60) = {1},
\* plan((2,9,5,7), 60) = {0,3}.
C12_ConcretePlansAsClaimed ==
    /\ PlanIs(<<1>>, 3, <<>>)
    /\ PlanIs(<<1, 2>>, 3, <<>>)
    /\ PlanIs(<<1, 2, 3>>, 3, <<0>>)
    /\ PlanIs(<<1, 10, 5, 6>>, 60, <<1>>)
    /\ PlanIs(<<2, 9, 5, 7>>, 60, <<0, 3>>)

\* C12 (amended): plan((1,), 3) = {}, plan((1,2), 3) = {},
\* plan((1,2,3), 3) = {1}, plan((1,10,5,6), 60) = {2},
\* plan((2,9,5,7), 60) = {0,3} (0-based indices, as the assertions of
\* mcpp.py state them).
C12_ConcretePlans ==
    /\ PlanIs(<<1>>, 3, <<>>)
    /\ PlanIs(<<1, 2>>, 3, <<>>)
    /\ PlanIs(<<1, 2, 3>>, 3, <<1>>)
    /\ PlanIs(<<1, 10, 5, 6>>, 60, <<2>>)
    /\ PlanIs(<<2, 9, 5, 7>>, 60, <<0, 3>>)

\* the call on (1,10,5,6), 60 has returned
C12_Witness ==
    /\ p_pc = "returned"
    /\ p_values = <<1, 10, 5, 6>>
    /\ p_bound = 60


\* the pinned dimensions' codes and the PinAssignment a request carries
pinned_codes ==
    { codes_to_iterate_over(info, dimensions_to_iterate_over)[k] :
        k \in 1..Len(dimensions_to_iterate_over) }

assignment_of(q) == { <<q.item[k].code, q.item[k].value>> : k \in 1..Len(q.item) }

\* every element of the cartesian product of the pinned dimensions' values
PinAssignments ==
    LET ns == { cardinality(info, code) : code \in pinned_codes }
        top == IF ns = {} THEN 1 ELSE CHOOSE n \in ns : \A m \in ns : m <= n
    IN  { f \in [pinned_codes -> 1..top] :
            \A code \in pinned_codes : f[code] <= cardinality(info, code) }

\* C13: no chunk fetch is ever started twice for the same assignment; when
\* the stream of a table ends normally, one chunk fetch has been started for
\* each element of the cartesian product of the pinned dimensions' values,
\* so their number is the product of the pinned cardinalities; with an empty
\* plan there is one fetch, every key dimension a wildcard, in one batch.
C13_OneFetchPerAssignment ==
    /\ \A i, j \in 1..Len(requests) : requests[i] = requests[j] => i = j
    /\ g_pc = "done" =>
          /\ Len(requests) = product(lengths(info), dimensions_to_iterate_over)
          /\ \A i \in 1..Len(requests) :
                \E f \in PinAssignments :
                    assignment_of(requests[i]) = { <<code, f[code]>> : code \in pinned_codes }
          /\ \A f \in PinAssignments :
                \E i \in 1..Len(requests) :
                    assignment_of(requests[i]) = { <<code, f[code]>> : code \in pinned_codes }
          /\ dimensions_to_iterate_over = <<>> =>
                /\ Len(requests) = 1
                /\ requests[1].item = <<>>
                /\ { requests[1].all[k] : k \in 1..Len(requests[1].all) }
                      = { key_field_lengths(info)[k].code :
                            k \in 1..Len(key_field_lengths(info)) }
                /\ Len(requests[1].all) = Len(key_field_lengths(info))
                /\ request_batch = <<1>>

\* a stream that ended normally with two pinned dimensions
C13_Witness ==
    /\ g_pc = "done"
    /\ Len(dimensions_to_iterate_over) = 2
    /\ Len(requests) = 4

\* a stream that ended normally with an empty plan
C13_WitnessEmptyPlan ==
    /\ g_pc = "done"
    /\ dimensions_to_iterate_over = <<>>
    /\ Len(key_field_lengths(info)) = 2


\* C14 (as claimed): a response with a status other than 200 is a failed
\* attempt of the retry wrapper and its body is never what `get` returns:
\* every call of `get` that has returned, returned the body of a 200 response.
C14_NonSuccessNeverReturned ==
    \A c \in Callers : pc[c] = "returned" => res_status[c] = 200


\* C15: when the content field count alone exceeds MAX_CELLS (the bound
\* passed to the partitioner is 0), the first next(data) of _main ends with
\* the partitioner's error: the table is failed for good, no sub-request has
\* been issued, nothing has been emitted, and no artifact or upload exists.
C15_InfeasiblePlanIsFatal ==
    (g_pc # "start" /\ value_fields(info) > MAX_CELLS) =>
        /\ plan_bound(info) < 1
        /\ g_pc = "raised" /\ m_pc = "failed"
        /\ raised_by = 0
        /\ requests = <<>> /\ in_flight = {}
        /\ emitted = <<>>
        /\ ~artifact /\ ~upload_started

\* the partitioner has raised for a table with two key dimensions
C15_Witness ==
    /\ g_pc = "raised"
    /\ value_fields(info) > MAX_CELLS
    /\ Len(key_field_lengths(info)) = 2


\* C16: an upload has been started only for a table whose stream ended
\* normally: every sub-request of the table was merged and every record
\* batch was handed to write_dataset, the rows adding up to the whole table;
\* a table whose fetch failed or was cancelled has no upload.
C16_UploadOnlyWhenComplete ==
    /\ upload_started =>
          /\ g_pc = "done" /\ m_pc = "uploading"
          /\ artifact
          /\ merged = 1..Len(Chunks) /\ in_flight = {}
          /\ to_emit = <<>>
          /\ RowsEmitted = table_rows(info)
    /\ g_pc \in {"raised", "yielded_none"} => ~upload_started
    /\ m_pc \in {"failed", "cancelled"} => ~upload_started

\* an upload started after a stream of several batches of tasks
C16_Witness ==
    /\ upload_started
    /\ Len(request_batch) > 0
    /\ request_batch[Len(request_batch)] >= 2


\* calls of f made by the retry wrappers of callers 1..n
RECURSIVE attempts_of(_)
attempts_of(n) == IF n = 0 THEN 0 ELSE attempts[n] + attempts_of(n - 1)

\* C17: every execution of the network call of `get`, first attempts and
\* re-attempts of the retry wrapper alike, began by passing the shared
\* throttle gate and appending its timestamp: the executions are exactly the
\* recorded calls, one per attempt that is not waiting at the gate, so no
\* max_calls_in_interval + 1 of them began within interval_seconds.
C17_EveryAttemptIsGated ==
    /\ net_starts = recorded
    /\ Len(net_starts) =
          attempts_of(NumCallers)
            - Cardinality({ c \in Callers : pc[c] = "throttle_sleep" })
    /\ \A i, j \in 1..Len(net_starts) :
          j - i >= max_calls_in_interval
              => net_starts[j] - net_starts[i] > interval_seconds

\* two callers have both failed once: the re-attempt of one is past the
\* gate while the re-attempt of the other is held back by it
C17_Witness ==
    /\ Len(net_starts) >= 3
    /\ \E c, c2 \in Callers :
          /\ attempts[c] >= 2 /\ pc[c] = "in_call"
          /\ attempts[c2] >= 2 /\ pc[c2] = "throttle_sleep"


\* C18: whatever the number of concurrent callers of the gate, every
\* recorded call timestamp is more than min_time_between_calls later than
\* the one recorded before it.
C18_MinSpacing ==
    \A i \in 1..Len(recorded) :
        i > 1 => recorded[i] - recorded[i - 1] > min_time_between_calls

\* two different callers passed the gate one after the other, as close in
\* time as a positive spacing allows
C18_Witness ==
    /\ min_time_between_calls >= 1
    /\ \A c \in {1, 2} : attempts[c] = 1 /\ pc[c] = "in_call"
    /\ Len(recorded) = 2
    /\ recorded[2] - recorded[1] = min_time_between_calls + 1


\* rows carried by the chunks of those of requests 1..n that belong to a
\* batch of tasks before batch b
RECURSIVE rows_before(_, _)
rows_before(n, b) ==
    IF n = 0 THEN 0
    ELSE (IF request_batch[n] < b
          THEN wildcard_product(info, requests[n].all) ELSE 0)
         + rows_before(n - 1, b)

\* C19: the fetches in flight are at most BatchSize (90 in the source) and
\* all of one batch of tasks; a batch holds at most BatchSize fetches; and
\* once a fetch of a batch has been started, every fetch of every earlier
\* batch has completed and been merged and all rows of the earlier batches
\* have been pulled by the consumer, none waiting in the generator.
C19_OneBatchAhead ==
    /\ Cardinality(in_flight) <= BatchSize
    /\ \A i, j \in in_flight : request_batch[i] = request_batch[j]
    /\ \A i \in 1..Len(requests) :
          /\ Cardinality({ j \in 1..Len(requests) :
                              request_batch[j] = request_batch[i] }) <= BatchSize
          /\ \A j \in 1..Len(requests) :
                request_batch[j] < request_batch[i] =>
                    j \in merged /\ j \notin in_flight
          /\ RowsEmitted >= rows_before(Len(requests), request_batch[i])
    /\ g_pc = "merging" =>
          /\ to_emit = <<>>
          /\ RowsEmitted = rows_before(Len(requests), request_batch[Len(requests)])

\* the second batch of tasks is in flight, as large as a batch can be
C19_Witness ==
    /\ g_pc = "merging"
    /\ Cardinality(in_flight) = BatchSize
    /\ \A i \in in_flight : request_batch[i] = 2


\* the unified schema of the chunks 1..n, taken in the order of submission
RECURSIVE schema_in_submission_order(_)
schema_in_submission_order(n) ==
    IF n = 1 THEN received[1]
    ELSE unify_schemas(schema_in_submission_order(n - 1), received[n])

first_batch == { i \in 1..Len(requests) : request_batch[i] = 1 }

\* C20 (as claimed): the emitted schema and the emitted row count do not
\* depend on the order in which the fetches of a batch complete, also when
\* the chunks differ in columns or column types: the schema is the one the
\* same chunks give when they complete in the order of submission, a stream
\* that ended has emitted the rows of the whole table, and the rows of a
\* batch of tasks are emitted before the next batch is started.
C20_IndependentOfCompletionOrder ==
    /\ \A p \in SchemaPositions :
          emitted[p].schema = schema_in_submission_order(Cardinality(first_batch))
    /\ g_pc = "done" => RowsEmitted = table_rows(info)
    /\ g_pc = "merging" =>
          RowsEmitted = rows_before(Len(requests), request_batch[Len(requests)])


\* C21: a retry wrapper whose operation succeeds returns at once: when it
\* has returned after k attempts, the k - 1 earlier attempts each failed and
\* were each followed by one wait of wait_time, so that consecutive attempts
\* began at least wait_time apart, k <= max_tries, and none of the deadline
\* checks found the deadline reached; no attempt follows the return, and an
\* error is raised only at the checks that follow a failed attempt's wait,
\* never after a success, whatever the time at which the success comes.
C21_SuccessReturnsAtOnce ==
    /\ \A c \in Callers :
          /\ pc[c] = "returned" =>
                /\ attempts[c] >= 1 /\ attempts[c] <= max_tries
                /\ tries[c] = attempts[c] - 1
                /\ ~deadline_seen[c]
          /\ pc[c] = "timedout" => deadline_seen[c] /\ tries[c] = attempts[c] - 1
          /\ pc[c] = "exhausted" => tries[c] = attempts[c]
    /\ Len(net_starts) = attempts_of(NumCallers)
    /\ \A i \in 1..Len(net_starts) :
          i > 1 => net_starts[i] - net_starts[i - 1] >= wait_time

\* success on the second attempt, found after the deadline had passed
C21_Witness ==
    /\ pc[1] = "returned"
    /\ attempts[1] = 2
    /\ wait_time >= 1
    /\ ~timeout.inf
    /\ now >= start[1] + timeout.s
    /\ now = net_starts[2] + 1


\* C22 (as claimed): the names _get_data gives to the columns of one
\* chunk, the value columns followed by the "__code" columns, are pairwise
\* distinct for every list of response columns.
C22_NamesDistinct ==
    n_pc = "done" =>
        \A i, j \in 1..Len(n_names) : n_names[i] = n_names[j] => i = j


\* C23 (as claimed): for a column of type "t" and a value other than "..",
\* parse_value returns the integer when the value has integer shape and
\* otherwise returns the value itself, as a string: no label of the lookup
\* takes its place and no exception leaves the call.
C23_TimeValuePassedThrough ==
    (v_pc = "done" /\ v_type = "t" /\ v_value # <<".", ".">>) =>
        IF int_shape(v_value)
        THEN v_out = outcome("int", to_int(v_value), <<>>)
        ELSE v_out = outcome("str", 0, v_value)

====
